---- MODULE Spec2Model ----
(***************************************************************************)
(* The command -> mutation -> event pipeline of the blogs microservice:    *)
(* PostsController, PostsService and UsersService over their document      *)
(* stores and the BLOGS_SERVICE event bus.                                 *)
(*                                                                         *)
(* Every command is an asynchronous task.  A task is suspended exactly at  *)
(* its awaits (a store call, the emit), so one action of this module is    *)
(* the code that runs from one await to the next, and the actions of       *)
(* different tasks interleave freely.  A null/absent value is the empty    *)
(* set and a present value x is the singleton {x}.                         *)
(***************************************************************************)
EXTENDS Integers, Sequences, FiniteSets, TLC

\* Commands dispatched in one behaviour.
MaxCmds == 2
\* Store calls and emits that the environment lets fail in one behaviour.
MaxFaults == 1
\* Identifiers each store can hand out (identifier 1 is in the store at start).
MaxIds == 2

SALT_ROUNDS == 10

Ids == 1..MaxIds
Titles == {"a", "b"}
Emails == {"e1", "e2"}
\* The empty string is the one email that is falsy to the code.
EmptyEmail == ""
Passwords == {"p", "q"}

VARIABLES posts, nextPostId, users, nextUserId, bus, tasks, faults

vars == <<posts, nextPostId, users, nextUserId, bus, tasks, faults>>

PostOps == {"createPost", "findAllPosts", "findPostById", "updatePost", "deletePost"}

(***************************************************************************)
(* Values                                                                  *)
(***************************************************************************)
NoPatch == <<>>

\* CreatePostDto / UpdatePostDto: the post's fields, here its title; an
\* update patch carries any subset of the fields.
CreatePostDto == {[title |-> t] : t \in Titles}
UpdatePostDto == {NoPatch} \cup {[title |-> t] : t \in Titles}

\* bcrypt.hash: a one-way value that is never the plaintext itself.
bcrypt_hash(password, rounds) == <<"bcrypt", rounds, password[3]>>
\* bcrypt.compare: false for anything that is not a hash of the password,
\* a stored plaintext included.
bcrypt_compare(password, stored) == stored = bcrypt_hash(password, stored[2])
\* A credential as a command payload carries it.
Plain(password) == <<"plain", 0, password>>

\* CreateUserDto: an email and a credential in the clear.
CreateUserDto ==
  {[email |-> e, password |-> Plain("p")] : e \in Emails \cup {EmptyEmail}}
UpdateUserDto ==
  {NoPatch} \cup {[email |-> e] : e \in Emails \cup {EmptyEmail}}
            \cup {[password |-> Plain("q")]}

\* The exceptions of common/exceptions and the failures of the collaborators.
Exception(kind, msg, appended, cause) ==
  [kind |-> kind, msg |-> msg, appended |-> appended, cause |-> cause]
ResourceNotFoundException(msg) == Exception("ResourceNotFound", msg, "", "")
InvalidInputException(msg) == Exception("InvalidInput", msg, "", "")
UnexpectedErrorException(msg) == Exception("Unexpected", msg, "", "")
StorageError == Exception("StorageError", "storage failure", "", "")
ConflictError == Exception("ConflictError", "duplicate key", "", "")
BusError == Exception("BusError", "publish failure", "", "")

(***************************************************************************)
(* Entity Store Adapter (PostsRepository, the User model)                  *)
(***************************************************************************)
find(coll) == coll
findOne(coll, id) == {d \in coll : d._id = id}
findOneByEmail(coll, email) ==
  IF \E d \in coll : d.email = email
  THEN {CHOOSE d \in coll : d.email = email}
  ELSE {}

PostDoc(id, dto) == [_id |-> id, title |-> dto.title]
SetPost(d, patch) ==
  [_id |-> d._id,
   title |-> IF "title" \in DOMAIN patch THEN patch.title ELSE d.title]
SetUser(d, patch) ==
  [_id |-> d._id,
   email |-> IF "email" \in DOMAIN patch THEN patch.email ELSE d.email,
   password |-> IF "password" \in DOMAIN patch THEN patch.password ELSE d.password]

\* The collection after an update of the document with this identifier.
updated(coll, id, new) == {d \in coll : d._id # id} \cup new
\* The collection after deleteOne / findByIdAndDelete.
deleted(coll, id) == {d \in coll : d._id # id}
\* The unique index on email.
EmailTaken(coll, id, email) == \E d \in coll : d._id # id /\ d.email = email

\* A store call or an emit either completes or, while the environment
\* still has faults to inject, fails.
Outcomes == IF faults < MaxFaults THEN {"ok", "fail"} ELSE {"ok"}
Fault(o) == faults' = IF o # "ok" THEN faults + 1 ELSE faults
\* The observable of an emit completes, fails, or never does either: the
\* lastValueFrom awaited on it then never settles.
EmitOutcomes == IF faults < MaxFaults THEN {"ok", "fail", "never"} ELSE {"ok"}

(***************************************************************************)
(* Tasks                                                                   *)
(***************************************************************************)
Pending == [kind |-> "pending", msg |-> "", appended |-> "", cause |-> "", data |-> {}]
\* The value a service method resolves with.
Ok(data) == [kind |-> "ok", msg |-> "", appended |-> "", cause |-> "", data |-> data]
\* The exception a service method rejects with.
Thrown(e) ==
  [kind |-> e.kind, msg |-> e.msg, appended |-> e.appended, cause |-> e.cause, data |-> {}]

\* What the handler of a message pattern hands back to the transport: a
\* Response Envelope, or the raw error the handler rejected with (then
\* "error" names it and the envelope fields are not meaningful).
NoResponse ==
  [envelope |-> FALSE, success |-> FALSE, data |-> {}, message |-> "",
   path |-> <<>>, statusCode |-> "", error |-> ""]
ApiResponseUtil_success(data, message, path, statusCode) ==
  [envelope |-> TRUE, success |-> TRUE, data |-> data, message |-> message,
   path |-> path, statusCode |-> statusCode, error |-> ""]
Rejected(res) == [NoResponse EXCEPT !.message = res.msg, !.error = res.kind]

\* A command in flight or finished.  op, id, dto: the call.  pc: the await
\* the task is suspended at.  local: the entity the task holds.  res: how
\* the service method ended; resp: what the controller handler returned.
\* The other fields record what the task did: absent / held (the target
\* identifier was absent from, the email was held in, the store at the
\* task's lookup), faulted (one of its store calls raised a storage
\* failure), emitFailed (its emit raised), wrote (its store write path was
\* invoked), writeOk (that call returned), changed (the store changed),
\* mutated (the target entity as the store held it right after the write),
\* pub (the events it published, in order), unhandled (a promise the task
\* left unawaited was rejected), sameEmail (the patch carries the email the
\* target had at the task's lookup), taken (when the task invoked its
\* write, the patch carried an email other than the target's that a
\* different user held in the store).
NewTask(op, id, dto) ==
  [op |-> op, id |-> id, dto |-> dto, pc |-> "start", local |-> {},
   res |-> Pending, resp |-> NoResponse,
   absent |-> FALSE, held |-> FALSE, faulted |-> FALSE, emitFailed |-> FALSE,
   wrote |-> FALSE, writeOk |-> FALSE, changed |-> FALSE, mutated |-> {},
   pub |-> <<>>, unhandled |-> FALSE, sameEmail |-> FALSE, taken |-> FALSE]

(***************************************************************************)
(* Command Dispatcher: PostsController message pattern handlers            *)
(***************************************************************************)
Controller_createPost(task, res) ==
  IF res.kind # "ok" THEN Rejected(res)
  ELSE ApiResponseUtil_success(res.data, "Post created successfully", <<"/posts">>, "CREATED")

Controller_getPosts(task, res) ==
  IF res.kind # "ok" THEN Rejected(res)
  ELSE ApiResponseUtil_success(res.data, "Posts retrieved successfully", <<"/posts">>, "OK")

Controller_getPost(task, res) ==
  IF res.kind # "ok" THEN Rejected(res)
  ELSE ApiResponseUtil_success(res.data, "Post retrieved successfully", <<"/posts", task.id>>, "OK")

Controller_updatePost(task, res) ==
  IF res.kind # "ok" THEN Rejected(res)
  ELSE ApiResponseUtil_success(res.data, "Post updated successfully", <<"/posts", task.id>>, "OK")

Controller_deletePost(task, res) ==
  IF res.kind # "ok" THEN Rejected(res)
  ELSE ApiResponseUtil_success({}, "Post deleted successfully", <<"/posts", task.id>>, "OK")

PostsController(task, res) ==
  CASE task.op = "createPost" -> Controller_createPost(task, res)
    [] task.op = "findAllPosts" -> Controller_getPosts(task, res)
    [] task.op = "findPostById" -> Controller_getPost(task, res)
    [] task.op = "updatePost" -> Controller_updatePost(task, res)
    [] task.op = "deletePost" -> Controller_deletePost(task, res)

\* The service method ends with res; a post command then leaves its
\* controller handler.
Settle(task, res) ==
  [task EXCEPT !.pc = "done", !.res = res,
               !.resp = IF task.op \in PostOps THEN PostsController(task, res)
                        ELSE NoResponse]

CanStart == Len(tasks) < MaxCmds
Start(task) == tasks' = Append(tasks, task)
Step(t, task) == tasks' = [tasks EXCEPT ![t] = task]
At(t, op, pc) == tasks[t].op = op /\ tasks[t].pc = pc

\* blogsClient.emit(name, payload) awaited through lastValueFrom.
Event(name, payload, t) == [name |-> name, payload |-> payload, task |-> t]
Published(task, e) == [task EXCEPT !.pub = Append(@, e)]

(***************************************************************************)
(* PostsService                                                            *)
(***************************************************************************)
\* findAll: no try/catch, a failure of the store leaves it as it is.
PostsService_findAll ==
  /\ CanStart
  /\ \E o \in Outcomes :
       LET task == NewTask("findAllPosts", 0, NoPatch) IN
       /\ Fault(o)
       /\ Start(IF o = "ok" THEN Settle(task, Ok(find(posts)))
                ELSE Settle([task EXCEPT !.faulted = TRUE], Thrown(StorageError)))
  /\ UNCHANGED <<posts, nextPostId, users, nextUserId, bus>>

\* findPostById: what findOne yields is returned unchecked; the catch
\* logs the error and throws it again.
findPostById_catch(error) == error

findPostById_result(post) == Ok(post)

findPostById(id) ==
  /\ CanStart
  /\ \E o \in Outcomes :
       LET task == [NewTask("findPostById", id, NoPatch)
                      EXCEPT !.absent = findOne(posts, id) = {}] IN
       /\ Fault(o)
       /\ Start(IF o = "ok" THEN Settle(task, findPostById_result(findOne(posts, id)))
                ELSE Settle([task EXCEPT !.faulted = TRUE],
                            Thrown(findPostById_catch(StorageError))))
  /\ UNCHANGED <<posts, nextPostId, users, nextUserId, bus>>

\* createPost: every error caught becomes 'Error creating post'.
createPost_catch(error) == UnexpectedErrorException("Error creating post")

\* createPost with the create outside the try: a failed create is lost
\* and the emit still runs.
createPost_create_unguarded(dto) ==
  /\ CanStart
  /\ nextPostId <= MaxIds
  /\ \E o \in Outcomes :
       LET task == [NewTask("createPost", 0, dto) EXCEPT !.wrote = TRUE]
           post == PostDoc(nextPostId, dto) IN
       /\ Fault(o)
       /\ IF o = "ok"
          THEN /\ posts' = posts \cup {post}
               /\ nextPostId' = nextPostId + 1
               /\ Start([task EXCEPT !.pc = "emit", !.local = {post},
                                     !.writeOk = TRUE, !.changed = TRUE,
                                     !.mutated = findOne(posts', post._id)])
          ELSE /\ UNCHANGED <<posts, nextPostId>>
               /\ Start([task EXCEPT !.pc = "emit", !.faulted = TRUE])
  /\ UNCHANGED <<users, nextUserId, bus>>

\* await this.postsRepository.create(createPostDto)
createPost_create(dto) ==
  /\ CanStart
  /\ nextPostId <= MaxIds
  /\ \E o \in Outcomes :
       LET task == [NewTask("createPost", 0, dto) EXCEPT !.wrote = TRUE]
           post == PostDoc(nextPostId, dto) IN
       /\ Fault(o)
       /\ IF o = "ok"
          THEN /\ posts' = posts \cup {post}
               /\ nextPostId' = nextPostId + 1
               /\ Start([task EXCEPT !.pc = "emit", !.local = {post},
                                     !.writeOk = TRUE, !.changed = TRUE,
                                     !.mutated = findOne(posts', post._id)])
          ELSE /\ UNCHANGED <<posts, nextPostId>>
               /\ Start(Settle([task EXCEPT !.faulted = TRUE],
                               Thrown(createPost_catch(StorageError))))
  /\ UNCHANGED <<users, nextUserId, bus>>

\* await lastValueFrom(this.blogsClient.emit('post_created', post)); return post
createPost_emit(t) ==
  /\ At(t, "createPost", "emit")
  /\ \E o \in EmitOutcomes :
       LET task == tasks[t]
           e == Event("post_created", task.local, t) IN
       /\ Fault(o)
       /\ IF o = "ok"
          THEN /\ bus' = Append(bus, e)
               /\ Step(t, Settle(Published(task, e), Ok(task.local)))
          ELSE IF o = "never"
          THEN /\ UNCHANGED bus
               /\ Step(t, [task EXCEPT !.pc = "stalled"])
          ELSE /\ UNCHANGED bus
               /\ Step(t, Settle([task EXCEPT !.emitFailed = TRUE],
                                 Thrown(createPost_catch(BusError))))
  /\ UNCHANGED <<posts, nextPostId, users, nextUserId>>

\* updatePost: a ResourceNotFoundException is thrown again, every other
\* error becomes 'Error updating post'.
updatePost_catch(error) ==
  IF error.kind = "ResourceNotFound" THEN error
  ELSE UnexpectedErrorException("Error updating post")

\* if (!existingPost) throw new ResourceNotFoundException('Post not found')
updatePost_check(existingPost) ==
  IF existingPost = {} THEN {ResourceNotFoundException("Post not found")} ELSE {}

\* const existingPost = await this.postsRepository.findOne({ _id: id })
updatePost_findOne(id, dto) ==
  /\ CanStart
  /\ \E o \in Outcomes :
       LET task == [NewTask("updatePost", id, dto)
                      EXCEPT !.absent = findOne(posts, id) = {}]
           existingPost == findOne(posts, id)
           thrown == updatePost_check(existingPost) IN
       /\ Fault(o)
       /\ Start(IF o = "fail"
                THEN Settle([task EXCEPT !.faulted = TRUE],
                            Thrown(updatePost_catch(StorageError)))
                ELSE IF thrown # {}
                THEN Settle(task, Thrown(updatePost_catch(CHOOSE e \in thrown : TRUE)))
                ELSE [task EXCEPT !.pc = "write", !.local = existingPost])
  /\ UNCHANGED <<posts, nextPostId, users, nextUserId, bus>>

\* const updatedPost = await this.postsRepository.findOneAndUpdate(...):
\* the updated entity, or the not-found signal when the filter matches
\* nothing; updatePost does not look at which.
updatePost_findOneAndUpdate(t) ==
  /\ At(t, "updatePost", "write")
  /\ \E o \in Outcomes :
       LET task == [tasks[t] EXCEPT !.wrote = TRUE]
           updatedPost == {SetPost(d, task.dto) : d \in findOne(posts, task.id)} IN
       /\ Fault(o)
       /\ IF o = "ok"
          THEN /\ posts' = updated(posts, task.id, updatedPost)
               /\ Step(t, [task EXCEPT !.pc = "emit", !.local = updatedPost,
                                       !.writeOk = TRUE,
                                       !.changed = posts' # posts,
                                       !.mutated = findOne(posts', task.id)])
          ELSE /\ UNCHANGED posts
               /\ Step(t, Settle([task EXCEPT !.faulted = TRUE],
                                 Thrown(updatePost_catch(StorageError))))
  /\ UNCHANGED <<nextPostId, users, nextUserId, bus>>

\* updatePost announcing the update under the name of the create event.
updatePost_emit_created(t) ==
  /\ At(t, "updatePost", "emit")
  /\ \E o \in Outcomes :
       LET task == tasks[t]
           e == Event("post_created", task.local, t) IN
       /\ Fault(o)
       /\ IF o = "ok"
          THEN /\ bus' = Append(bus, e)
               /\ Step(t, Settle(Published(task, e), Ok(task.local)))
          ELSE /\ UNCHANGED bus
               /\ Step(t, Settle([task EXCEPT !.emitFailed = TRUE],
                                 Thrown(updatePost_catch(BusError))))
  /\ UNCHANGED <<posts, nextPostId, users, nextUserId>>

\* await lastValueFrom(this.blogsClient.emit('post_updated', updatedPost));
\* return updatedPost
updatePost_emit(t) ==
  /\ At(t, "updatePost", "emit")
  /\ \E o \in EmitOutcomes :
       LET task == tasks[t]
           e == Event("post_updated", task.local, t) IN
       /\ Fault(o)
       /\ IF o = "ok"
          THEN /\ bus' = Append(bus, e)
               /\ Step(t, Settle(Published(task, e), Ok(task.local)))
          ELSE IF o = "never"
          THEN /\ UNCHANGED bus
               /\ Step(t, [task EXCEPT !.pc = "stalled"])
          ELSE /\ UNCHANGED bus
               /\ Step(t, Settle([task EXCEPT !.emitFailed = TRUE],
                                 Thrown(updatePost_catch(BusError))))
  /\ UNCHANGED <<posts, nextPostId, users, nextUserId>>

\* deletePost: a ResourceNotFoundException becomes a new
\* ResourceNotFoundException('Post'), every other error 'Error deleting
\* post' with the error kept as its cause.
deletePost_catch(error) ==
  IF error.kind = "ResourceNotFound" THEN ResourceNotFoundException("Post")
  ELSE Exception("Unexpected", "Error deleting post", "", error.kind)

\* deletePost without its existence check.
deletePost_check_missing(post) == {}

\* if (!post) throw new ResourceNotFoundException('Post')
deletePost_check(post) ==
  IF post = {} THEN {ResourceNotFoundException("Post")} ELSE {}

\* const post = await this.postsRepository.findOne({ _id: id })
deletePost_findOne(id) ==
  /\ CanStart
  /\ \E o \in Outcomes :
       LET task == [NewTask("deletePost", id, NoPatch)
                      EXCEPT !.absent = findOne(posts, id) = {}]
           post == findOne(posts, id)
           thrown == deletePost_check(post) IN
       /\ Fault(o)
       /\ Start(IF o = "fail"
                THEN Settle([task EXCEPT !.faulted = TRUE],
                            Thrown(deletePost_catch(StorageError)))
                ELSE IF thrown # {}
                THEN Settle(task, Thrown(deletePost_catch(CHOOSE e \in thrown : TRUE)))
                ELSE [task EXCEPT !.pc = "write", !.local = post])
  /\ UNCHANGED <<posts, nextPostId, users, nextUserId, bus>>

\* await this.postsRepository.deleteOne({ _id: id }): whether a document
\* was removed is not looked at.
deletePost_deleteOne(t) ==
  /\ At(t, "deletePost", "write")
  /\ \E o \in Outcomes :
       LET task == [tasks[t] EXCEPT !.wrote = TRUE] IN
       /\ Fault(o)
       /\ IF o = "ok"
          THEN /\ posts' = deleted(posts, task.id)
               /\ Step(t, [task EXCEPT !.pc = "emit", !.writeOk = TRUE,
                                       !.changed = posts' # posts])
          ELSE /\ UNCHANGED posts
               /\ Step(t, Settle([task EXCEPT !.faulted = TRUE],
                                 Thrown(deletePost_catch(StorageError))))
  /\ UNCHANGED <<nextPostId, users, nextUserId, bus>>

\* await lastValueFrom(this.blogsClient.emit('post_deleted', { id }))
deletePost_emit(t) ==
  /\ At(t, "deletePost", "emit")
  /\ \E o \in EmitOutcomes :
       LET task == tasks[t]
           e == Event("post_deleted", {[id |-> task.id]}, t) IN
       /\ Fault(o)
       /\ IF o = "ok"
          THEN /\ bus' = Append(bus, e)
               /\ Step(t, Settle(Published(task, e), Ok({})))
          ELSE IF o = "never"
          THEN /\ UNCHANGED bus
               /\ Step(t, [task EXCEPT !.pc = "stalled"])
          ELSE /\ UNCHANGED bus
               /\ Step(t, Settle([task EXCEPT !.emitFailed = TRUE],
                                 Thrown(deletePost_catch(BusError))))
  /\ UNCHANGED <<posts, nextPostId, users, nextUserId>>

(***************************************************************************)
(* Inbound events: PostsService handlers and PostsController event         *)
(* pattern handlers                                                        *)
(***************************************************************************)
\* Reading a property of a null or undefined payload.
TypeError == Exception("TypeError", "Cannot read properties of undefined", "", "")

\* The payloads an inbound event can carry: none, or the entity / {id}.
InboundPost == {{}, {PostDoc(1, [title |-> "a"])}}
InboundDeleted == {{}} \cup {{[id |-> 1]}}

\* this.logger.log(`... ${post._id}`): rejects when there is no post.
handlePostCreated(post) == IF post = {} THEN Thrown(TypeError) ELSE Ok({})
handlePostUpdated(post) == IF post = {} THEN Thrown(TypeError) ELSE Ok({})
\* this.logger.log(`... ${postId}`): logs whatever it is given.
handlePostDeleted(postId) == Ok({})

\* @EventPattern('post_created'): the service handler is called and not
\* awaited, so the controller handler resolves whatever becomes of it, and
\* a rejection of the service handler is handled by nobody.
Controller_handlePostCreated(post) ==
  /\ CanStart
  /\ LET res == handlePostCreated(post) IN
     Start([NewTask("handlePostCreated", 0, post)
              EXCEPT !.pc = "done", !.res = res, !.resp = NoResponse,
                     !.unhandled = res.kind # "ok"])
  /\ UNCHANGED <<posts, nextPostId, users, nextUserId, bus, faults>>

\* @EventPattern('post_updated')
Controller_handlePostUpdated(post) ==
  /\ CanStart
  /\ LET res == handlePostUpdated(post) IN
     Start([NewTask("handlePostUpdated", 0, post)
              EXCEPT !.pc = "done", !.res = res, !.resp = NoResponse,
                     !.unhandled = res.kind # "ok"])
  /\ UNCHANGED <<posts, nextPostId, users, nextUserId, bus, faults>>

\* @EventPattern('post_deleted'): data.id is read in the controller
\* handler itself, which rejects when there is no data.
Controller_handlePostDeleted(data) ==
  /\ CanStart
  /\ Start(IF data = {}
           THEN [NewTask("handlePostDeleted", 0, data)
                   EXCEPT !.pc = "done", !.resp = Rejected(Thrown(TypeError))]
           ELSE LET res == handlePostDeleted({d.id : d \in data}) IN
                [NewTask("handlePostDeleted", 0, data)
                   EXCEPT !.pc = "done", !.res = res, !.resp = NoResponse,
                          !.unhandled = res.kind # "ok"])
  /\ UNCHANGED <<posts, nextPostId, users, nextUserId, bus, faults>>

(***************************************************************************)
(* UsersService                                                            *)
(***************************************************************************)
\* findAll: no try/catch, a failure of the store leaves it as it is.
UsersService_findAll ==
  /\ CanStart
  /\ \E o \in Outcomes :
       LET task == NewTask("findAllUsers", 0, NoPatch) IN
       /\ Fault(o)
       /\ Start(IF o = "ok" THEN Settle(task, Ok(find(users)))
                ELSE Settle([task EXCEPT !.faulted = TRUE], Thrown(StorageError)))
  /\ UNCHANGED <<posts, nextPostId, users, nextUserId, bus>>

\* findUserByEmail: every error of the store becomes 'Error finding user'.
findUserByEmail_catch(error) == UnexpectedErrorException("Error finding user")

findUserByEmail(email) ==
  /\ CanStart
  /\ \E o \in Outcomes :
       LET task == [NewTask("findUserByEmail", 0, [email |-> email])
                      EXCEPT !.held = findOneByEmail(users, email) # {}] IN
       /\ Fault(o)
       /\ Start(IF o = "ok" THEN Settle(task, Ok(findOneByEmail(users, email)))
                ELSE Settle([task EXCEPT !.faulted = TRUE],
                            Thrown(findUserByEmail_catch(StorageError))))
  /\ UNCHANGED <<posts, nextPostId, users, nextUserId, bus>>

\* createUser: an InvalidInputException is thrown again, every other
\* error becomes 'Error creating user'.
createUser_catch(error) ==
  IF error.kind = "InvalidInput" THEN error
  ELSE UnexpectedErrorException("Error creating user")

\* createUser without its uniqueness check.
createUser_check_missing(existingUser) == {}

\* if (existingUser) throw new InvalidInputException('Email already exists')
createUser_check(existingUser) ==
  IF existingUser # {} THEN {InvalidInputException("Email already exists")} ELSE {}

\* new this.userModel({ ...createUserDto, password: hashedPassword, ... })
createUser_newUser(id, dto) ==
  [_id |-> id, email |-> dto.email,
   password |-> bcrypt_hash(dto.password, SALT_ROUNDS)]

\* const existingUser = await this.findUserByEmail(createUserDto.email)
createUser_findUserByEmail(dto) ==
  /\ CanStart
  /\ nextUserId <= MaxIds
  /\ \E o \in Outcomes :
       LET task == [NewTask("createUser", 0, dto)
                      EXCEPT !.held = findOneByEmail(users, dto.email) # {}]
           thrown == createUser_check(findOneByEmail(users, dto.email)) IN
       /\ Fault(o)
       /\ Start(IF o = "fail"
                THEN Settle([task EXCEPT !.faulted = TRUE],
                            Thrown(createUser_catch(findUserByEmail_catch(StorageError))))
                ELSE IF thrown # {}
                THEN Settle(task, Thrown(createUser_catch(CHOOSE e \in thrown : TRUE)))
                ELSE [task EXCEPT !.pc = "write"])
  /\ UNCHANGED <<posts, nextPostId, users, nextUserId, bus>>

\* const hashedPassword = await bcrypt.hash(...); const savedUser = await
\* newUser.save(); return savedUser.  The store rejects a second document
\* with the same email.
createUser_save(t) ==
  /\ At(t, "createUser", "write")
  /\ \E o \in Outcomes :
       LET task == [tasks[t] EXCEPT !.wrote = TRUE]
           newUser == createUser_newUser(nextUserId, task.dto) IN
       /\ Fault(o)
       /\ IF o = "fail"
          THEN /\ UNCHANGED <<users, nextUserId>>
               /\ Step(t, Settle([task EXCEPT !.faulted = TRUE],
                                 Thrown(createUser_catch(StorageError))))
          ELSE IF EmailTaken(users, newUser._id, newUser.email)
          THEN /\ UNCHANGED <<users, nextUserId>>
               /\ Step(t, Settle(task, Thrown(createUser_catch(ConflictError))))
          ELSE /\ nextUserId <= MaxIds
               /\ users' = users \cup {newUser}
               /\ nextUserId' = nextUserId + 1
               /\ Step(t, Settle([task EXCEPT !.writeOk = TRUE, !.changed = TRUE,
                                              !.local = {newUser},
                                              !.mutated = findOne(users', newUser._id)],
                                 Ok({newUser})))
  /\ UNCHANGED <<posts, nextPostId, bus>>

\* findUserById: a ResourceNotFoundException is thrown again, every other
\* error becomes 'Error finding user'.
findUserById_catch(error) ==
  IF error.kind = "ResourceNotFound" THEN error
  ELSE UnexpectedErrorException("Error finding user")

\* if (!user) throw new ResourceNotFoundException('User not found'); return user
findUserById_result(user) ==
  IF user = {} THEN Thrown(findUserById_catch(ResourceNotFoundException("User not found")))
  ELSE Ok(user)

findUserById(id) ==
  /\ CanStart
  /\ \E o \in Outcomes :
       LET task == [NewTask("findUserById", id, NoPatch)
                      EXCEPT !.absent = findOne(users, id) = {}] IN
       /\ Fault(o)
       /\ Start(IF o = "ok" THEN Settle(task, findUserById_result(findOne(users, id)))
                ELSE Settle([task EXCEPT !.faulted = TRUE],
                            Thrown(findUserById_catch(StorageError))))
  /\ UNCHANGED <<posts, nextPostId, users, nextUserId, bus>>

\* updateUser: ResourceNotFoundException and InvalidInputException are
\* thrown again, every other error becomes 'Error updating user: ' with
\* the error's own message appended.
updateUser_catch(error) ==
  IF error.kind \in {"ResourceNotFound", "InvalidInput"} THEN error
  ELSE Exception("Unexpected", "Error updating user: ", error.msg, "")

\* if (!existingUser) throw new ResourceNotFoundException('User not found')
updateUser_check(existingUser) ==
  IF existingUser = {} THEN {ResourceNotFoundException("User not found")} ELSE {}

\* if (updateUserDto.email && updateUserDto.email !== existingUser.email):
\* an email that is absent from the patch or is the empty string is falsy,
\* and the lookup is then not made.
updateUser_emailChanges(dto, existingUser) ==
  /\ "email" \in DOMAIN dto
  /\ dto.email # ""
  /\ \A u \in existingUser : dto.email # u.email

\* The patch carries an email other than existingUser's that a different
\* user of the store holds.
HeldByAnother(store, dto, existingUser) ==
  /\ "email" \in DOMAIN dto
  /\ \A u \in existingUser : dto.email # u.email
  /\ \E v \in store : v.email = dto.email /\ \A u \in existingUser : v._id # u._id

\* if (emailExists) throw new InvalidInputException('Email already exists')
updateUser_emailCheck(emailExists) ==
  IF emailExists # {} THEN {InvalidInputException("Email already exists")} ELSE {}

\* if (!updatedUser) throw new ResourceNotFoundException('User not found
\* after update'); return updatedUser
updateUser_result(updatedUser) ==
  IF updatedUser = {}
  THEN Thrown(updateUser_catch(ResourceNotFoundException("User not found after update")))
  ELSE Ok(updatedUser)

\* const existingUser = await this.userModel.findById(id)
updateUser_findById(id, dto) ==
  /\ CanStart
  /\ \E o \in Outcomes :
       LET task == [NewTask("updateUser", id, dto)
                      EXCEPT !.absent = findOne(users, id) = {},
                             !.sameEmail = /\ "email" \in DOMAIN dto
                                           /\ \E u \in findOne(users, id) :
                                                u.email = dto.email]
           existingUser == findOne(users, id)
           thrown == updateUser_check(existingUser) IN
       /\ Fault(o)
       /\ Start(IF o = "fail"
                THEN Settle([task EXCEPT !.faulted = TRUE],
                            Thrown(updateUser_catch(StorageError)))
                ELSE IF thrown # {}
                THEN Settle(task, Thrown(updateUser_catch(CHOOSE e \in thrown : TRUE)))
                ELSE IF updateUser_emailChanges(dto, existingUser)
                THEN [task EXCEPT !.local = existingUser, !.pc = "email"]
                ELSE [task EXCEPT !.local = existingUser, !.pc = "write",
                                  !.taken = HeldByAnother(users, dto, existingUser)])
  /\ UNCHANGED <<posts, nextPostId, users, nextUserId, bus>>

\* const emailExists = await this.findUserByEmail(updateUserDto.email)
updateUser_findUserByEmail(t) ==
  /\ At(t, "updateUser", "email")
  /\ \E o \in Outcomes :
       LET task == [tasks[t] EXCEPT !.held = findOneByEmail(users, tasks[t].dto.email) # {}]
           thrown == updateUser_emailCheck(findOneByEmail(users, task.dto.email)) IN
       /\ Fault(o)
       /\ Step(t, IF o = "fail"
                  THEN Settle([task EXCEPT !.faulted = TRUE],
                              Thrown(updateUser_catch(findUserByEmail_catch(StorageError))))
                  ELSE IF thrown # {}
                  THEN Settle(task, Thrown(updateUser_catch(CHOOSE e \in thrown : TRUE)))
                  ELSE [task EXCEPT !.pc = "write",
                                    !.taken = HeldByAnother(users, task.dto, task.local)])
  /\ UNCHANGED <<posts, nextPostId, users, nextUserId, bus>>

\* const updatedUser = await this.userModel.findByIdAndUpdate(id,
\* { $set: updateUserDto }, { new: true, ... }).exec()
updateUser_findByIdAndUpdate(t) ==
  /\ At(t, "updateUser", "write")
  /\ \E o \in Outcomes :
       LET task == [tasks[t] EXCEPT !.wrote = TRUE]
           updatedUser == {SetUser(d, task.dto) : d \in findOne(users, task.id)} IN
       /\ Fault(o)
       /\ IF o = "fail"
          THEN /\ UNCHANGED users
               /\ Step(t, Settle([task EXCEPT !.faulted = TRUE],
                                 Thrown(updateUser_catch(StorageError))))
          ELSE IF \E u \in updatedUser : EmailTaken(users, u._id, u.email)
          THEN /\ UNCHANGED users
               /\ Step(t, Settle(task, Thrown(updateUser_catch(ConflictError))))
          ELSE /\ users' = updated(users, task.id, updatedUser)
               /\ Step(t, Settle([task EXCEPT !.writeOk = TRUE, !.local = updatedUser,
                                              !.changed = users' # users,
                                              !.mutated = findOne(users', task.id)],
                                 updateUser_result(updatedUser)))
  /\ UNCHANGED <<posts, nextPostId, nextUserId, bus>>

\* deleteUser: a ResourceNotFoundException is thrown again, every other
\* error becomes 'Error deleting user'.
deleteUser_catch(error) ==
  IF error.kind = "ResourceNotFound" THEN error
  ELSE UnexpectedErrorException("Error deleting user")

\* if (!result) throw new ResourceNotFoundException('User not found')
deleteUser_result(result) ==
  IF result = {} THEN Thrown(deleteUser_catch(ResourceNotFoundException("User not found")))
  ELSE Ok({})

\* const result = await this.userModel.findByIdAndDelete(id).exec(): the
\* one store call of deleteUser, made without a lookup before it.
deleteUser(id) ==
  /\ CanStart
  /\ \E o \in Outcomes :
       LET task == [NewTask("deleteUser", id, NoPatch)
                      EXCEPT !.absent = findOne(users, id) = {}, !.wrote = TRUE]
           result == findOne(users, id) IN
       /\ Fault(o)
       /\ IF o = "ok"
          THEN /\ users' = deleted(users, id)
               /\ Start(Settle([task EXCEPT !.writeOk = TRUE, !.changed = users' # users],
                               deleteUser_result(result)))
          ELSE /\ UNCHANGED users
               /\ Start(Settle([task EXCEPT !.faulted = TRUE],
                               Thrown(deleteUser_catch(StorageError))))
  /\ UNCHANGED <<posts, nextPostId, nextUserId, bus>>

\* validateUserCredentials: an InvalidInputException is thrown again,
\* every other error becomes 'Error validating credentials'.
validateUserCredentials_catch(error) ==
  IF error.kind = "InvalidInput" THEN error
  ELSE UnexpectedErrorException("Error validating credentials")

\* validateUserCredentials telling an unknown email from a wrong password.
validateUserCredentials_result_telling(user, password) ==
  IF user = {}
  THEN Thrown(validateUserCredentials_catch(InvalidInputException("User not found")))
  ELSE IF \E u \in user : ~bcrypt_compare(password, u.password)
  THEN Thrown(validateUserCredentials_catch(InvalidInputException("Invalid credentials")))
  ELSE Ok(user)

\* if (!user) throw ...; if (!(await bcrypt.compare(password,
\* user.password))) throw ...; return user
validateUserCredentials_result(user, password) ==
  IF user = {}
  THEN Thrown(validateUserCredentials_catch(InvalidInputException("Invalid credentials")))
  ELSE IF \E u \in user : ~bcrypt_compare(password, u.password)
  THEN Thrown(validateUserCredentials_catch(InvalidInputException("Invalid credentials")))
  ELSE Ok(user)

\* const user = await this.findUserByEmail(email); if (!user) throw new
\* InvalidInputException('Invalid credentials'): with a user in hand the
\* method goes on to wait for bcrypt.compare.
validateUserCredentials_findUserByEmail(email, password) ==
  /\ CanStart
  /\ \E o \in Outcomes :
       LET task == [NewTask("validateUserCredentials", 0,
                            [email |-> email, password |-> password])
                      EXCEPT !.held = findOneByEmail(users, email) # {}]
           user == findOneByEmail(users, email) IN
       /\ Fault(o)
       /\ Start(IF o = "fail"
                THEN Settle([task EXCEPT !.faulted = TRUE],
                            Thrown(validateUserCredentials_catch(
                                     findUserByEmail_catch(StorageError))))
                ELSE IF user = {}
                THEN Settle(task, validateUserCredentials_result(user, password))
                ELSE [task EXCEPT !.local = user, !.pc = "compare"])
  /\ UNCHANGED <<posts, nextPostId, users, nextUserId, bus>>

\* const isPasswordValid = await bcrypt.compare(password, user.password);
\* if (!isPasswordValid) throw ...; return user: the user compared and
\* returned is the one the lookup yielded, whatever the store holds by now.
validateUserCredentials_compare(t) ==
  /\ At(t, "validateUserCredentials", "compare")
  /\ Step(t, Settle(tasks[t], validateUserCredentials_result(tasks[t].local,
                                                            tasks[t].dto.password)))
  /\ UNCHANGED <<posts, nextPostId, users, nextUserId, bus, faults>>

(***************************************************************************)
(* Specification                                                           *)
(***************************************************************************)
Init ==
  /\ posts = {PostDoc(1, [title |-> "a"])}
  /\ nextPostId = 2
  /\ users = {[_id |-> 1, email |-> "e1", password |-> bcrypt_hash(Plain("p"), SALT_ROUNDS)]}
  /\ nextUserId = 2
  /\ bus = <<>>
  /\ tasks = <<>>
  /\ faults = 0

Running == 1..Len(tasks)

PostsNext ==
  \/ PostsService_findAll
  \/ \E id \in Ids : findPostById(id)
  \/ \E dto \in CreatePostDto : createPost_create(dto)
  \/ \E t \in Running : createPost_emit(t)
  \/ \E id \in Ids, dto \in UpdatePostDto : updatePost_findOne(id, dto)
  \/ \E t \in Running : updatePost_findOneAndUpdate(t)
  \/ \E t \in Running : updatePost_emit(t)
  \/ \E id \in Ids : deletePost_findOne(id)
  \/ \E t \in Running : deletePost_deleteOne(t)
  \/ \E t \in Running : deletePost_emit(t)
  \/ \E post \in InboundPost : Controller_handlePostCreated(post)
  \/ \E post \in InboundPost : Controller_handlePostUpdated(post)
  \/ \E data \in InboundDeleted : Controller_handlePostDeleted(data)

UsersNext ==
  \/ UsersService_findAll
  \/ \E e \in Emails : findUserByEmail(e)
  \/ \E dto \in CreateUserDto : createUser_findUserByEmail(dto)
  \/ \E t \in Running : createUser_save(t)
  \/ \E id \in Ids : findUserById(id)
  \/ \E id \in Ids, dto \in UpdateUserDto : updateUser_findById(id, dto)
  \/ \E t \in Running : updateUser_findUserByEmail(t)
  \/ \E t \in Running : updateUser_findByIdAndUpdate(t)
  \/ \E id \in Ids : deleteUser(id)
  \/ \E e \in Emails, p \in Passwords :
       validateUserCredentials_findUserByEmail(e, Plain(p))
  \/ \E t \in Running : validateUserCredentials_compare(t)

Next == PostsNext \/ UsersNext

Spec == Init /\ [][Next]_vars

(***************************************************************************)
(* Properties                                                              *)
(***************************************************************************)
Done(t) == tasks[t].pc = "done"
PostMutations == {"createPost", "updatePost", "deletePost"}
UserMutations == {"createUser", "updateUser", "deleteUser"}
\* The events on the bus that the command t published.
Attributable(t) == {i \in 1..Len(bus) : bus[i].task = t}
ExpectedEvent(op) ==
  CASE op = "createPost" -> "post_created"
    [] op = "updatePost" -> "post_updated"
    [] op = "deletePost" -> "post_deleted"

\* C1: when the store mutation of createPost, updatePost or deletePost has
\* succeeded and the emit that follows raises, the command still completes
\* successfully and returns the post-mutation entity (nothing for delete);
\* the publish failure never becomes a command failure.
C1_PublishFailureSwallowed ==
  \A t \in Running :
    (tasks[t].op \in PostMutations /\ tasks[t].writeOk /\ tasks[t].emitFailed)
      => /\ tasks[t].res.kind = "ok"
         /\ tasks[t].res.data = IF tasks[t].op = "deletePost" THEN {} ELSE tasks[t].mutated

\* C2: a create, update or delete command whose store write has not
\* completed successfully (it was not issued, or the store raised a
\* storage failure) has no event on the bus.
C2_NoEventWithoutWrite ==
  \A t \in Running :
    (tasks[t].op \in PostMutations \cup UserMutations /\ ~tasks[t].writeOk)
      => Attributable(t) = {} /\ tasks[t].pub = <<>>

\* A post mutation whose store write raised a storage failure has finished.
C2_Witness ==
  \E t \in Running :
    /\ tasks[t].op \in PostMutations
    /\ tasks[t].wrote /\ tasks[t].faulted /\ ~tasks[t].writeOk
    /\ Done(t) /\ tasks[t].res.kind = "Unexpected"

\* C3: every successful createPost, updatePost and deletePost has published
\* exactly one event, of the expected name, whose payload is the entity as
\* the store held it right after the command's write ({id} for delete) and
\* is what the command returns; and no post mutation has published
\* anything before its store write completed.
C3_OneEventAfterWrite ==
  \A t \in Running :
    tasks[t].op \in PostMutations =>
      /\ tasks[t].pub # <<>> => tasks[t].writeOk
      /\ Cardinality(Attributable(t)) = Len(tasks[t].pub)
      /\ (Done(t) /\ tasks[t].res.kind = "ok") =>
           /\ tasks[t].writeOk
           /\ Len(tasks[t].pub) = 1
           /\ \A i \in Attributable(t) :
                /\ bus[i] = tasks[t].pub[1]
                /\ bus[i].name = ExpectedEvent(tasks[t].op)
                /\ bus[i].payload = IF tasks[t].op = "deletePost"
                                    THEN {[id |-> tasks[t].id]}
                                    ELSE tasks[t].mutated
                /\ tasks[t].op # "deletePost" => tasks[t].res.data = bus[i].payload

\* An updatePost that changed the stored entity has finished successfully.
C3_Witness ==
  \E t \in Running :
    /\ tasks[t].op = "updatePost" /\ Done(t) /\ tasks[t].res.kind = "ok"
    /\ tasks[t].changed /\ tasks[t].mutated # {}
    /\ Len(bus) = 1

\* C4: for an identifier absent from the store, updatePost,
\* deletePost, updateUser and deleteUser fail with NotFound, the store's
\* write path is not invoked, the store is unchanged and no event is
\* published.
C4_AbsentNoWritePath ==
  \A t \in Running :
    (/\ tasks[t].op \in {"updatePost", "deletePost", "updateUser", "deleteUser"}
     /\ tasks[t].absent /\ ~tasks[t].faulted)
      => /\ Done(t) /\ tasks[t].res.kind = "ResourceNotFound"
         /\ ~tasks[t].wrote
         /\ ~tasks[t].changed
         /\ Attributable(t) = {}

\* What the code keeps of C4: for an identifier absent from the store,
\* updatePost, deletePost, updateUser and deleteUser fail with NotFound,
\* the store is unchanged and no event is published; updatePost,
\* deletePost and updateUser do not invoke the store's write path, and
\* deleteUser alone does: its one store call is findByIdAndDelete.
C4_AbsentNotFound ==
  \A t \in Running :
    (/\ tasks[t].op \in {"updatePost", "deletePost", "updateUser", "deleteUser"}
     /\ tasks[t].absent /\ ~tasks[t].faulted)
      => /\ Done(t) /\ tasks[t].res.kind = "ResourceNotFound"
         /\ tasks[t].wrote <=> tasks[t].op = "deleteUser"
         /\ ~tasks[t].changed
         /\ Attributable(t) = {} /\ tasks[t].pub = <<>>

\* An updatePost and a deleteUser on absent identifiers have both finished.
C4_Witness ==
  \E t1, t2 \in Running :
    /\ tasks[t1].op = "updatePost" /\ tasks[t1].absent /\ Done(t1)
    /\ tasks[t2].op = "deleteUser" /\ tasks[t2].absent /\ Done(t2)
    /\ ~tasks[t1].faulted /\ ~tasks[t2].faulted

\* C5: createUser with an email that a stored user holds performs no store
\* write, leaves the stored documents as they are and publishes no event,
\* and, its lookup having returned, fails with InvalidInput 'Email already
\* exists'.
C5_DuplicateEmailConflict ==
  \A t \in Running :
    (tasks[t].op = "createUser" /\ tasks[t].held)
      => /\ Done(t)
         /\ ~tasks[t].wrote /\ ~tasks[t].changed
         /\ Attributable(t) = {} /\ tasks[t].pub = <<>>
         /\ ~tasks[t].faulted =>
              /\ tasks[t].res.kind = "InvalidInput"
              /\ tasks[t].res.msg = "Email already exists"

\* A createUser with a held email was refused and the store still holds
\* the one user it started with.
C5_Witness ==
  \E t \in Running :
    /\ tasks[t].op = "createUser" /\ tasks[t].held /\ Done(t)
    /\ tasks[t].res.kind = "InvalidInput"
    /\ Cardinality(users) = 1

\* C6: no stored user has a password equal to a plaintext password that a
\* createUser or updateUser payload carried.
C6_NoPlaintextStored ==
  \A u \in users : \A t \in Running :
    (tasks[t].op \in {"createUser", "updateUser"} /\ "password" \in DOMAIN tasks[t].dto)
      => u.password # tasks[t].dto.password

\* C7: of two deletes of one identifier (deletePost twice or deleteUser
\* twice), the first having removed the entity before the second looked it
\* up: the first, if nothing it called raised, succeeds; the second, its
\* store call having returned, fails with NotFound, changes nothing in the
\* store and publishes no event.
C7_SecondDeleteNotFound ==
  \A t1, t2 \in Running :
    (/\ t1 < t2
     /\ tasks[t1].op \in {"deletePost", "deleteUser"}
     /\ tasks[t2].op = tasks[t1].op /\ tasks[t2].id = tasks[t1].id
     /\ tasks[t1].changed /\ tasks[t2].absent)
      => /\ (Done(t1) /\ ~tasks[t1].emitFailed) => tasks[t1].res.kind = "ok"
         /\ ~tasks[t2].faulted =>
              /\ Done(t2) /\ tasks[t2].res.kind = "ResourceNotFound"
              /\ ~tasks[t2].changed
              /\ Attributable(t2) = {} /\ tasks[t2].pub = <<>>

\* A post was deleted, with its event published, and deleted again.
C7_Witness ==
  /\ Len(tasks) = 2
  /\ tasks[1].op = "deletePost" /\ tasks[1].res.kind = "ok"
  /\ tasks[2].op = "deletePost" /\ tasks[2].id = tasks[1].id
  /\ tasks[2].res.kind = "ResourceNotFound"
  /\ Len(bus) = 1

\* The stored credential is a hash of this password.
HashOf(stored, password) == stored = bcrypt_hash(password, SALT_ROUNDS)
\* What the caller of a service method observes.
Outcome(t) == tasks[t].res

\* C8: validateUserCredentials, its lookup having returned, ends by
\* resolving with the user the lookup found when the email was held and
\* that user's stored credential is a hash of the password, and otherwise
\* by failing with InvalidInput; and any two finished calls, one whose email
\* was absent from the store and one whose email was held and whose
\* password was wrong, end with the same error kind and message.
C8_CredentialCheck ==
  /\ \A t \in Running :
       (tasks[t].op = "validateUserCredentials" /\ ~tasks[t].faulted /\ Done(t)) =>
         IF tasks[t].held
            /\ \E u \in tasks[t].local : HashOf(u.password, tasks[t].dto.password)
         THEN Outcome(t) = Ok(tasks[t].local) /\ tasks[t].local # {}
         ELSE Outcome(t).kind = "InvalidInput"
  /\ \A t1, t2 \in Running :
       (/\ tasks[t1].op = "validateUserCredentials" /\ ~tasks[t1].faulted
        /\ tasks[t2].op = "validateUserCredentials" /\ ~tasks[t2].faulted
        /\ Done(t1) /\ Done(t2)
        /\ ~tasks[t1].held
        /\ tasks[t2].held /\ Outcome(t2).kind # "ok")
         => Outcome(t1) = Outcome(t2)

\* One call with an unknown email and one with a known email and a wrong
\* password have both been refused, the second after its comparison.
C8_Witness ==
  \E t1, t2 \in Running :
    /\ tasks[t1].op = "validateUserCredentials" /\ ~tasks[t1].held
    /\ tasks[t2].op = "validateUserCredentials" /\ tasks[t2].held
    /\ tasks[t2].local # {}
    /\ Done(t1) /\ Done(t2)
    /\ Outcome(t1).kind = "InvalidInput" /\ Outcome(t2).kind = "InvalidInput"

\* Some call with the right credentials has returned its user.
C8_WitnessAccepted ==
  \E t \in Running :
    tasks[t].op = "validateUserCredentials" /\ Outcome(t).kind = "ok"

\* A call has returned a user that the store no longer holds: the user was
\* deleted while the comparison was awaited.
C8_WitnessReturnedDeleted ==
  \E t \in Running :
    /\ tasks[t].op = "validateUserCredentials" /\ Outcome(t).kind = "ok"
    /\ \A u \in tasks[t].local : findOne(users, u._id) = {}

\* C9: every finished command of the dispatcher has returned a Response
\* Envelope: success with the payload when the service call succeeded,
\* success=false with no data and a status code when it failed; never a
\* raw error.
C9_AlwaysEnvelope ==
  \A t \in Running :
    (tasks[t].op \in PostOps /\ Done(t)) =>
      /\ tasks[t].resp.envelope
      /\ tasks[t].res.kind = "ok" =>
           /\ tasks[t].resp.success
           /\ tasks[t].op # "deletePost" => tasks[t].resp.data = tasks[t].res.data
      /\ tasks[t].res.kind # "ok" =>
           /\ ~tasks[t].resp.success
           /\ tasks[t].resp.data = {}
           /\ tasks[t].resp.statusCode # ""

\* C10: findPostById and findUserById on an identifier absent from the
\* store, the lookup having returned, fail with NotFound and never
\* complete successfully with a null entity.
C10_ReadOneNotFound ==
  \A t \in Running :
    (/\ tasks[t].op \in {"findPostById", "findUserById"}
     /\ tasks[t].absent /\ ~tasks[t].faulted)
      => Outcome(t).kind = "ResourceNotFound"

UserEvent(op) ==
  CASE op = "createUser" -> "user_created"
    [] op = "updateUser" -> "user_updated"
    [] op = "deleteUser" -> "user_deleted"

\* C11: every successful createUser, updateUser and deleteUser has
\* published exactly one event after its store write: user_created with
\* the created entity, user_updated with the updated entity, user_deleted
\* with the identifier.
C11_UserEventPublished ==
  \A t \in Running :
    (tasks[t].op \in UserMutations /\ Done(t) /\ tasks[t].res.kind = "ok") =>
      /\ tasks[t].writeOk
      /\ Cardinality(Attributable(t)) = 1
      /\ \A i \in Attributable(t) :
           /\ bus[i].name = UserEvent(tasks[t].op)
           /\ bus[i].payload = IF tasks[t].op = "deleteUser"
                               THEN {[id |-> tasks[t].id]}
                               ELSE tasks[t].mutated

EventHandlers == {"handlePostCreated", "handlePostUpdated", "handlePostDeleted"}

\* C12: no inbound event handler lets a failure out: the controller
\* handler never rejects towards the message-consumption loop and no
\* rejected promise is left unhandled.
C12_HandlerFailureContained ==
  \A t \in Running :
    tasks[t].op \in EventHandlers =>
      /\ tasks[t].resp.error = ""
      /\ ~tasks[t].unhandled

\* The step that resumes the task t after the await it is suspended at.
Resume(t) ==
  \/ createPost_emit(t) \/ updatePost_findOneAndUpdate(t) \/ updatePost_emit(t)
  \/ deletePost_deleteOne(t) \/ deletePost_emit(t)
  \/ createUser_save(t) \/ updateUser_findUserByEmail(t)
  \/ updateUser_findByIdAndUpdate(t) \/ validateUserCredentials_compare(t)

\* C13: a mutation command whose store write has returned is never left
\* without a way to return: it has returned, or the step that makes it
\* return can be taken, whatever the bus does with the publish.
C13_PublishCannotStall ==
  \A t \in Running :
    (tasks[t].op \in PostMutations \cup UserMutations /\ tasks[t].writeOk)
      => Done(t) \/ ENABLED Resume(t)

\* C14: every service operation in which the store raised a storage
\* failure ends, for its caller, with Unexpected, and the error the caller
\* sees carries neither the storage failure as its cause nor the text of
\* its message.
C14_StorageFailureWrapped ==
  \A t \in Running :
    (tasks[t].faulted /\ Done(t)) =>
      /\ tasks[t].res.kind = "Unexpected"
      /\ tasks[t].res.msg # StorageError.msg
      /\ tasks[t].res.appended # StorageError.msg
      /\ tasks[t].res.cause # StorageError.kind

\* The same, for the operations that do wrap the failure without a trace
\* of it: every operation but the two findAll, findPostById, updateUser
\* and deletePost.
C14_WrappedWhereCaught ==
  \A t \in Running :
    (/\ tasks[t].faulted /\ Done(t)
     /\ tasks[t].op \notin {"findAllPosts", "findAllUsers", "findPostById",
                            "updateUser", "deletePost"}) =>
      /\ tasks[t].res.kind = "Unexpected"
      /\ tasks[t].res.msg # StorageError.msg
      /\ tasks[t].res.appended # StorageError.msg
      /\ tasks[t].res.cause # StorageError.kind

\* C15: no updateUser invokes its store write with a patch whose email
\* differs from the target's and is held by a different user at that
\* moment: such an update has failed with InvalidInput before any write.
C15_HeldEmailRefusedBeforeWrite ==
  \A t \in Running :
    tasks[t].op = "updateUser" =>
      /\ ~tasks[t].taken
      /\ (tasks[t].held /\ ~tasks[t].faulted) =>
           /\ Done(t) /\ ~tasks[t].wrote
           /\ tasks[t].res.kind = "InvalidInput"

\* An update of user 1 to the empty email, which user 2 holds, went to the
\* store without a lookup, and the store refused it for its unique index.
C15_EmptyEmailWritten ==
  \E t \in Running :
    /\ tasks[t].op = "updateUser" /\ tasks[t].dto = [email |-> ""]
    /\ tasks[t].taken /\ ~tasks[t].held /\ tasks[t].wrote /\ ~tasks[t].faulted
    /\ Done(t) /\ tasks[t].res.kind = "Unexpected"

\* What updateUser does keep of C15: an updateUser that looked its patch
\* email up and found it held fails with InvalidInput 'Email already
\* exists' without invoking the write and without changing the store; an
\* updateUser whose patch carries the target's own email makes no email
\* lookup, is never refused with InvalidInput, and, no store call of it
\* having raised, has gone on to its write; and the lookup is made for no
\* patch whose email is the empty string.
EmailConflictOnLookedUpUpdate ==
  \A t \in Running :
    tasks[t].op = "updateUser" =>
      /\ (tasks[t].held /\ ~tasks[t].faulted) =>
           /\ Done(t)
           /\ tasks[t].res.kind = "InvalidInput"
           /\ tasks[t].res.msg = "Email already exists"
      /\ tasks[t].held => (~tasks[t].wrote /\ ~tasks[t].changed)
      /\ tasks[t].sameEmail =>
           /\ ~tasks[t].held
           /\ tasks[t].pc # "email"
           /\ tasks[t].res.kind # "InvalidInput"
           /\ (Done(t) /\ ~tasks[t].faulted) => tasks[t].wrote
      /\ tasks[t].dto = [email |-> ""] => (~tasks[t].held /\ tasks[t].pc # "email")

\* The write is invoked with an email held by a different user for no
\* patch but the one whose email is the empty string.
TakenOnlyWhenEmpty ==
  \A t \in Running : tasks[t].taken => tasks[t].dto.email = ""

\* A second user took another email, and its email update to the email
\* held by user 1 was refused.
EmailConflictRefused ==
  \E t \in Running :
    /\ tasks[t].op = "updateUser" /\ tasks[t].id = 2 /\ tasks[t].held
    /\ tasks[t].res.kind = "InvalidInput"
    /\ \E u \in users : u._id = 1 /\ u.email = tasks[t].dto.email
    /\ \E u \in users : u._id = 2 /\ u.email # tasks[t].dto.email

\* An update of user 1 with its own email has been written.
OwnEmailWritten ==
  \E t \in Running :
    /\ tasks[t].op = "updateUser" /\ tasks[t].sameEmail
    /\ Done(t) /\ tasks[t].res.kind = "ok"

\* The store rejected the write of task t for its unique index: the write
\* was invoked, raised no storage failure, and did not return.
RejectedAsDuplicate(t) ==
  tasks[t].wrote /\ ~tasks[t].writeOk /\ ~tasks[t].faulted /\ Done(t)

\* C16: no two stored users hold the same email, and a createUser whose
\* save the store rejected as a duplicate, another createUser with the
\* same email having written first, is reported as InvalidInput, not as
\* Unexpected.
C16_ConcurrentCreateConflict ==
  /\ \A u1, u2 \in users : u1.email = u2.email => u1 = u2
  /\ \A t \in Running :
       (tasks[t].op = "createUser" /\ RejectedAsDuplicate(t))
         => tasks[t].res.kind = "InvalidInput"

\* C17: once every command dispatched is an updatePost of one post that
\* has returned successfully, the payload of the last post_updated event
\* is the entity the store holds.
C17_LastEventIsStoredEntity ==
  \A id \in Ids :
    (/\ Len(tasks) > 0
     /\ \A t \in Running :
          /\ tasks[t].op = "updatePost" /\ tasks[t].id = id
          /\ Done(t) /\ tasks[t].res.kind = "ok")
      => bus[Len(bus)].payload = findOne(posts, id)

\* C18: an updatePost whose store write matched no document, the post
\* having been deleted since its existence check, fails with NotFound and
\* publishes nothing; and no post_updated event carries a null entity.
C18_UpdateOfDeletedPost ==
  /\ \A t \in Running :
       (tasks[t].op = "updatePost" /\ tasks[t].writeOk /\ tasks[t].mutated = {})
         => /\ tasks[t].pub = <<>>
            /\ Done(t) => tasks[t].res.kind = "ResourceNotFound"
  /\ \A i \in 1..Len(bus) :
       bus[i].name = "post_updated" => bus[i].payload # {}
  /\ \A t \in Running :
       (tasks[t].op = "updatePost" /\ Done(t) /\ tasks[t].res.kind = "ok")
         => tasks[t].res.data # {}

\* C19: the deletePost commands on one identifier have published no more
\* post_deleted events than documents they removed, and each that
\* returned successfully removed the document.
C19_OneDeleteWins ==
  \A id \in Ids :
    LET deletes == {t \in Running : tasks[t].op = "deletePost" /\ tasks[t].id = id}
        removed == {t \in deletes : tasks[t].changed}
        events == {i \in 1..Len(bus) : bus[i].name = "post_deleted"
                                        /\ bus[i].payload = {[id |-> id]}}
    IN /\ Cardinality(events) <= Cardinality(removed)
       /\ \A t \in deletes :
            (Done(t) /\ tasks[t].res.kind = "ok") => tasks[t].changed
       /\ \A t \in deletes :
            (Done(t) /\ tasks[t].writeOk /\ ~tasks[t].changed)
              => tasks[t].res.kind = "ResourceNotFound"
====
